---- MODULE Spec2Model ----
(***************************************************************************)
(* Model of src/binance_funding_monitor.py: the Binance funding-fee        *)
(* tracker.  One run of run_pipeline ("a tick") collects a snapshot from   *)
(* the exchange (positions, rates, intervals, paginated income), appends   *)
(* it to the record CSV, reloads the CSV, computes the metrics and writes  *)
(* the summary and chart files.  Ticks are run one-shot by main() or       *)
(* concurrently by the handlers of the threaded web server.                *)
(*                                                                         *)
(* Numbers.  Python floats are modelled as exact rationals <<n, d>> with   *)
(* d > 0 in lowest terms (rounding error of binary floating point is not   *)
(* modelled).  The "%.12f" text of the record file is modelled as a whole  *)
(* number of 1/Scale steps, rounded half-to-even: Scale stands for 10^12.  *)
(* Times are integers (milliseconds in the source); HourMs stands for the  *)
(* 3 600 000 ms of an hour and PageLimit for the page size 1000.           *)
(***************************************************************************)
EXTENDS Integers, Sequences, FiniteSets, TLC

\* ------------------------------------------------------------------ bounds
PageLimit == 2      \* stands for "limit": 1000 (rows per income page)
Scale == 4          \* stands for the 10^12 steps per unit of "%.12f"
HourMs == 2         \* stands for the milliseconds in one hour
MaxTime == 2        \* the wall clock runs over 0..MaxTime
MaxEvents == 2      \* income events the server comes to hold
MaxTicks == 2       \* recording runs of the pipeline that are followed
MaxRecords == 2     \* length of the record lists given to compute_metrics
MaxPositions == 2   \* length of the position lists given to collect_snapshot
MantissaBits == 4   \* stands for the 53 significant bits of a Python float

\* ------------------------------------------------------------- arithmetic
Abs(x) == IF x < 0 THEN -x ELSE x
Max2(a, b) == IF a >= b THEN a ELSE b
SetMax(S) == CHOOSE x \in S : \A y \in S : y <= x

RECURSIVE GCD(_, _)
GCD(a, b) == IF b = 0 THEN a ELSE GCD(b, a % b)

\* The rational n/d (d # 0) in lowest terms with a positive denominator.
Rat(n, d) ==
    IF d = 0 THEN <<0, 0>>
    ELSE LET g == GCD(Abs(n), Abs(d))
             s == IF d < 0 THEN -1 ELSE 1
         IN  <<(s * n) \div g, (s * d) \div g>>

Zero == <<0, 1>>
FromInt(i) == <<i, 1>>
RAdd(a, b) == Rat(a[1] * b[2] + b[1] * a[2], a[2] * b[2])
RSub(a, b) == Rat(a[1] * b[2] - b[1] * a[2], a[2] * b[2])
RMul(a, b) == Rat(a[1] * b[1], a[2] * b[2])
RNeg(a) == <<-a[1], a[2]>>
RAbs(a) == <<Abs(a[1]), a[2]>>
RLe(a, b) == a[1] * b[2] <= b[1] * a[2]
RLt(a, b) == a[1] * b[2] < b[1] * a[2]
RPos(a) == a[1] > 0
RIsZero(a) == a[1] = 0

\* Python's float division x / y raises ZeroDivisionError when y == 0: the
\* result is the pair <<0, 0>>, which every later operation hands on.
ZeroDivisionError == <<0, 0>>
RDiv(a, b) == IF b[1] = 0 THEN ZeroDivisionError ELSE Rat(a[1] * b[2], a[2] * b[1])
Defined(a) == a[2] # 0

RECURSIVE RSum(_)
RSum(s) == IF s = <<>> THEN Zero ELSE RAdd(s[1], RSum(Tail(s)))

RECURSIVE Pow2(_)
Pow2(k) == IF k = 0 THEN 1 ELSE 2 * Pow2(k - 1)

\* The nearest whole number to q >= 0, ties to even.
RoundHalfEven(q) ==
    LET lo == q[1] \div q[2]
        rem == q[1] - lo * q[2]
    IN  IF 2 * rem < q[2] THEN lo
        ELSE IF 2 * rem > q[2] THEN lo + 1
        ELSE IF lo % 2 = 0 THEN lo ELSE lo + 1

\* A Python float is a binary floating-point number: every arithmetic result
\* is the exact result rounded to the nearest number with MantissaBits
\* significant bits, ties to even.  The exponent range is not bounded here:
\* overflow to inf and gradual underflow are outside the model.
RECURSIVE FlPos(_, _)
FlPos(n, d) ==
    IF n >= Pow2(MantissaBits) * d
    THEN RMul(FromInt(2), FlPos(n, 2 * d))
    ELSE IF n < Pow2(MantissaBits - 1) * d
    THEN RMul(<<1, 2>>, FlPos(2 * n, d))
    ELSE FromInt(RoundHalfEven(<<n, d>>))

Fl(q) ==
    IF q[2] = 0 \/ q[1] = 0 THEN q
    ELSE IF q[1] > 0 THEN FlPos(q[1], q[2])
    ELSE RNeg(FlPos(-q[1], q[2]))

\* x + y, x * y, x / y on floats.
FAdd(a, b) == Fl(RAdd(a, b))
FMul(a, b) == Fl(RMul(a, b))
FDiv(a, b) == Fl(RDiv(a, b))

\* sum(xs): the items added one by one, left to right, starting from 0.
RECURSIVE FSumFrom(_, _)
FSumFrom(total, s) == IF s = <<>> THEN total ELSE FSumFrom(FAdd(total, s[1]), Tail(s))
FSum(s) == FSumFrom(Zero, s)

RECURSIVE ISum(_)
ISum(s) == IF s = <<>> THEN 0 ELSE s[1] + ISum(Tail(s))

\* A JSON / CSV field that float() or int() may fail on.
Bad == [ok |-> FALSE, v |-> Zero]
Num(q) == [ok |-> TRUE, v |-> q]

\* ------------------------------------------------- public market lookups
Symbols == {"BTC", "ETH"}
NoSymbol == ""

\* get_premium_index: symbol -> rate; an item whose lastFundingRate does not
\* parse, or that has no symbol, is skipped; a later item overrides an earlier.
RECURSIVE PremiumFold(_, _)
PremiumFold(data, rates) ==
    IF data = <<>> THEN rates
    ELSE LET item == data[1]
         IN  IF item.lastFundingRate.ok /\ item.symbol # NoSymbol
             THEN PremiumFold(Tail(data),
                              [rates EXCEPT ![item.symbol] = Num(item.lastFundingRate.v)])
             ELSE PremiumFold(Tail(data), rates)

get_premium_index(data) == PremiumFold(data, [s \in Symbols |-> Bad])

\* get_funding_intervals: symbol -> hours, only for hours > 0; a response that
\* is not a list gives the empty map.
RECURSIVE IntervalFold(_, _)
IntervalFold(items, intervals) ==
    IF items = <<>> THEN intervals
    ELSE LET item == items[1]
         IN  IF item.fundingIntervalHours.ok /\ item.symbol # NoSymbol
                /\ RPos(item.fundingIntervalHours.v)
             THEN IntervalFold(Tail(items),
                               [intervals EXCEPT ![item.symbol] = Num(item.fundingIntervalHours.v)])
             ELSE IntervalFold(Tail(items), intervals)

get_funding_intervals(data) ==
    IF data.isList THEN IntervalFold(data.rows, [s \in Symbols |-> Bad])
    ELSE [s \in Symbols |-> Bad]

\* --------------------------------------------------- position exposure
DefaultIntervalHours == 8

\* rates.get(symbol, 0.0) and float(intervals.get(symbol, 8)), 8.0 if <= 0.
RateOf(rates, symbol) == IF rates[symbol].ok THEN rates[symbol].v ELSE Zero
IntervalOf(intervals, symbol) ==
    LET h == IF intervals[symbol].ok THEN intervals[symbol].v
             ELSE FromInt(DefaultIntervalHours)
    IN  IF RLe(h, Zero) THEN FromInt(DefaultIntervalHours) ELSE h

\* A position row is skipped when a field does not parse, when the amount or
\* the mark price is 0, or when it has no symbol.
Skipped(row) ==
    \/ ~row.positionAmt.ok
    \/ ~row.markPrice.ok
    \/ RIsZero(row.positionAmt.v)
    \/ RIsZero(row.markPrice.v)
    \/ row.symbol = NoSymbol

ExposureZero ==
    [total_abs_notional |-> Zero, weighted_rate_hourly_sum |-> Zero,
     estimated_next_fee |-> Zero, estimated_hourly_fee |-> Zero]

\* (a variant that weights the hourly rate by the signed notional)
ExposureStepSigned(acc, row, rates, intervals) ==
    IF Skipped(row) THEN acc
    ELSE LET rate == RateOf(rates, row.symbol)
             interval_h == IntervalOf(intervals, row.symbol)
             notional == FMul(row.positionAmt.v, row.markPrice.v)
         IN  [total_abs_notional |-> FAdd(acc.total_abs_notional, RAbs(notional)),
              weighted_rate_hourly_sum |->
                  FAdd(acc.weighted_rate_hourly_sum,
                       FMul(FDiv(rate, interval_h), notional)),
              estimated_next_fee |-> FAdd(acc.estimated_next_fee, FMul(notional, rate)),
              estimated_hourly_fee |->
                  FAdd(acc.estimated_hourly_fee,
                       FDiv(FMul(notional, rate), interval_h))]

\* One iteration of the loop over the positions.
ExposureStep(acc, row, rates, intervals) ==
    IF Skipped(row) THEN acc
    ELSE LET rate == RateOf(rates, row.symbol)
             interval_h == IntervalOf(intervals, row.symbol)
             notional == FMul(row.positionAmt.v, row.markPrice.v)
             abs_notional == RAbs(notional)
         IN  [total_abs_notional |-> FAdd(acc.total_abs_notional, abs_notional),
              weighted_rate_hourly_sum |->
                  FAdd(acc.weighted_rate_hourly_sum,
                       FMul(FDiv(rate, interval_h), abs_notional)),
              estimated_next_fee |-> FAdd(acc.estimated_next_fee, FMul(notional, rate)),
              estimated_hourly_fee |->
                  FAdd(acc.estimated_hourly_fee,
                       FDiv(FMul(notional, rate), interval_h))]

RECURSIVE ExposureFold(_, _, _, _)
ExposureFold(acc, positions, rates, intervals) ==
    IF positions = <<>> THEN acc
    ELSE ExposureFold(ExposureStep(acc, positions[1], rates, intervals),
                      Tail(positions), rates, intervals)

WeightedRatePerHour(acc) ==
    IF RPos(acc.total_abs_notional)
    THEN FDiv(acc.weighted_rate_hourly_sum, acc.total_abs_notional)
    ELSE Zero

\* The exposure part of collect_snapshot.
CollectExposure(positions, rates, intervals) ==
    LET acc == ExposureFold(ExposureZero, positions, rates, intervals)
    IN  [total_abs_notional |-> acc.total_abs_notional,
         weighted_rate_per_hour |-> WeightedRatePerHour(acc),
         estimated_next_fee |-> acc.estimated_next_fee,
         estimated_hourly_fee |-> acc.estimated_hourly_fee]

\* window_h = float(realized_window_hours), 1.0 when that is <= 0.
WindowHours(realized_window_hours) ==
    IF realized_window_hours <= 0 THEN 1 ELSE realized_window_hours

FundingSnapshot(now, realized, window_h, exposure) ==
    [timestamp |-> now,
     realized_fee_window |-> realized,
     realized_window_hours |-> FromInt(window_h),
     estimated_next_fee |-> exposure.estimated_next_fee,
     estimated_hourly_fee |-> exposure.estimated_hourly_fee,
     total_abs_notional |-> exposure.total_abs_notional,
     weighted_rate_per_hour |-> exposure.weighted_rate_per_hour]

\* ------------------------------------------------------- the record file
\* f"{x:.12f}": the nearest whole number of 1/Scale steps, ties to even.
Format12(q) ==
    LET k == RoundHalfEven(RMul(RAbs(q), FromInt(Scale)))
    IN  IF q[1] < 0 THEN -k ELSE k

\* float(text) of a field written by Format12.
ParseFloat(k) == Fl(Rat(k, Scale))

\* float(text) of a last field cut short by a write still in progress: the
\* digits up to the decimal point (truncation toward zero).
ParseCut(k) == FromInt(IF k >= 0 THEN k \div Scale ELSE -((-k) \div Scale))

HeaderLine == [kind |-> "header", ts |-> 0, f |-> <<0, 0, 0, 0, 0, 0>>, cut |-> "full"]

\* (a variant that writes the window hours and the fee in each other's column)
RowOfSwapped(snapshot) ==
    [kind |-> "row", ts |-> snapshot.timestamp,
     f |-> <<Format12(snapshot.realized_window_hours),
             Format12(snapshot.realized_fee_window),
             Format12(snapshot.estimated_next_fee),
             Format12(snapshot.estimated_hourly_fee),
             Format12(snapshot.total_abs_notional),
             Format12(snapshot.weighted_rate_per_hour)>>,
     cut |-> "full"]

\* The data row save_record writes for a snapshot.  The timestamp is written
\* with isoformat() and read with fromisoformat(), which is exact.
RowOf(snapshot) ==
    [kind |-> "row", ts |-> snapshot.timestamp,
     f |-> <<Format12(snapshot.realized_fee_window),
             Format12(snapshot.realized_window_hours),
             Format12(snapshot.estimated_next_fee),
             Format12(snapshot.estimated_hourly_fee),
             Format12(snapshot.total_abs_notional),
             Format12(snapshot.weighted_rate_per_hour)>>,
     cut |-> "full"]

\* What save_record hands to the file when it is closed.
SaveBuffer(snapshot, file_exists) ==
    IF file_exists THEN <<RowOf(snapshot)>> ELSE <<HeaderLine, RowOf(snapshot)>>

NoFile == [exists |-> FALSE, lines |-> <<>>]
NoStart == -1

\* The record a line parses to in load_records.
RecordOf(line) ==
    [timestamp |-> line.ts,
     realized_fee_window |-> ParseFloat(line.f[1]),
     realized_window_hours |-> ParseFloat(line.f[2]),
     estimated_next_fee |-> ParseFloat(line.f[3]),
     estimated_hourly_fee |-> ParseFloat(line.f[4]),
     total_abs_notional |-> ParseFloat(line.f[5]),
     weighted_rate_per_hour |->
         IF line.cut = "last" THEN ParseCut(line.f[6]) ELSE ParseFloat(line.f[6])]

\* (a variant of load_records without its check of the window)
LoadableAnyWindow(line, start_time) ==
    /\ line.kind = "row"
    /\ line.cut # "mid"
    /\ ~(start_time # NoStart /\ line.ts < start_time)

\* A line load_records appends: all seven fields parse (a repeated header
\* line, or a line with fields missing, raises and is skipped), the window is
\* positive and the timestamp is not before start_time.
Loadable(line, start_time) ==
    /\ line.kind = "row"
    /\ line.cut # "mid"
    /\ RPos(ParseFloat(line.f[2]))
    /\ ~(start_time # NoStart /\ line.ts < start_time)

RECURSIVE LoadFold(_, _)
LoadFold(lines, start_time) ==
    IF lines = <<>> THEN <<>>
    ELSE (IF Loadable(lines[1], start_time) THEN <<RecordOf(lines[1])>> ELSE <<>>)
         \o LoadFold(Tail(lines), start_time)

\* load_records: csv.DictReader names the columns after the first line of
\* the file; when that is not the header every row raises KeyError.
load_records(file, start_time) ==
    IF ~file.exists \/ file.lines = <<>> THEN <<>>
    ELSE IF file.lines[1].kind # "header" THEN <<>>
    ELSE LoadFold(Tail(file.lines), start_time)

\* ---------------------------------------------------------- the metrics
Column(records, field) == [i \in 1..Len(records) |-> records[i][field]]

EmptyMetrics ==
    [count |-> Zero, total_realized |-> Zero, avg_hourly_realized |-> Zero,
     daily_fee |-> Zero, monthly_fee |-> Zero, yearly_fee |-> Zero,
     avg_weighted_rate_per_hour |-> Zero, daily_rate |-> Zero,
     monthly_rate |-> Zero, yearly_rate |-> Zero,
     avg_estimated_hourly_fee |-> Zero]

\* (a variant that divides whatever the total of the hours is)
AvgHourlyRealizedUnguarded(total_realized, total_covered_hours) ==
    FDiv(total_realized, total_covered_hours)

AvgHourlyRealized(total_realized, total_covered_hours) ==
    IF RPos(total_covered_hours) THEN FDiv(total_realized, total_covered_hours)
    ELSE Zero

AvgWeightedRate(records, sum_notional) ==
    IF RPos(sum_notional)
    THEN FDiv(FSum([i \in 1..Len(records) |->
                       FMul(records[i].weighted_rate_per_hour,
                            records[i].total_abs_notional)]),
              sum_notional)
    ELSE Zero

AvgEstimatedHourly(records, count) ==
    IF RPos(count) THEN FDiv(FSum(Column(records, "estimated_hourly_fee")), count)
    ELSE Zero

compute_metrics(records) ==
    IF records = <<>> THEN EmptyMetrics
    ELSE LET count == FromInt(Len(records))
             total_realized == FSum(Column(records, "realized_fee_window"))
             total_covered_hours == FSum(Column(records, "realized_window_hours"))
             avg_hourly_realized == AvgHourlyRealized(total_realized, total_covered_hours)
             sum_notional == FSum(Column(records, "total_abs_notional"))
             avg_weighted_rate_per_hour == AvgWeightedRate(records, sum_notional)
         IN  [count |-> count,
              total_realized |-> total_realized,
              avg_hourly_realized |-> avg_hourly_realized,
              daily_fee |-> FMul(avg_hourly_realized, FromInt(24)),
              monthly_fee |-> FMul(FMul(avg_hourly_realized, FromInt(24)), FromInt(30)),
              yearly_fee |-> FMul(FMul(avg_hourly_realized, FromInt(24)), FromInt(365)),
              avg_weighted_rate_per_hour |-> avg_weighted_rate_per_hour,
              daily_rate |-> FMul(avg_weighted_rate_per_hour, FromInt(24)),
              monthly_rate |-> FMul(FMul(avg_weighted_rate_per_hour, FromInt(24)), FromInt(30)),
              yearly_rate |-> FMul(FMul(avg_weighted_rate_per_hour, FromInt(24)), FromInt(365)),
              avg_estimated_hourly_fee |-> AvgEstimatedHourly(records, count)]

MetricKeys == DOMAIN EmptyMetrics

\* ------------------------------------------------------ income pagination
\* A row of an income page: ok is FALSE when float(income) or int(time) raises.
BadRow == [ok |-> FALSE, income |-> Zero, time |-> 0]

\* total after the for loop: total += float(row.get("income", 0)) for each
\* row that parses.
RECURSIVE PageTotal(_, _)
PageTotal(total, rows) ==
    IF rows = <<>> THEN total
    ELSE PageTotal(IF rows[1].ok THEN FAdd(total, rows[1].income) ELSE total,
                   Tail(rows))

\* The times of the rows of a page that parse.
EventTimes(rows) == {rows[i].time : i \in {j \in 1..Len(rows) : rows[j].ok}}

\* last_time after the for loop: the largest parsed time, never below page_start.
RECURSIVE LastTime(_, _)
LastTime(last_time, rows) ==
    IF rows = <<>> THEN last_time
    ELSE LastTime(IF rows[1].ok THEN Max2(last_time, rows[1].time) ELSE last_time,
                  Tail(rows))

\* The loop stops on a response that is not a list, is empty, or is shorter
\* than the page size.
PageBreaks(data) ==
    \/ ~data.isList
    \/ data.rows = <<>>
    \/ Len(data.rows) < PageLimit

\* (a variant that asks again from the last time seen, not from the next ms)
NextPageStartSameMs(page_start, data) == LastTime(page_start, data.rows)

NextPageStart(page_start, data) == LastTime(page_start, data.rows) + 1

\* The state of get_funding_income_sum after one pass of its while loop that
\* received `data`: its locals and whether it returns.
IncomeIteration(loc, data) ==
    IF ~data.isList \/ data.rows = <<>>
    THEN [loc EXCEPT !.returned = TRUE]
    ELSE [page_start |-> IF PageBreaks(data) THEN loc.page_start
                         ELSE NextPageStart(loc.page_start, data),
          end_ms |-> loc.end_ms,
          total |-> PageTotal(loc.total, data.rows),
          returned |-> PageBreaks(data)]

\* start_ms, end_ms, page_start and total at the top of the function.
IncomeEntry(start_ms, end_ms) ==
    [page_start |-> start_ms, end_ms |-> end_ms, total |-> Zero, returned |-> FALSE]

\* The while condition.
IncomeLoops(loc) == ~loc.returned /\ loc.page_start < loc.end_ms

\* collect_snapshot asks for the income of [now - window_h hours, now].
WindowStart(now, realized_window_hours) == now - WindowHours(realized_window_hours) * HourMs

\* The exchange's answer to an income query: the events with
\* startTime <= time <= endTime, oldest first, at most `limit` of them.
InWindow(events, startTime, endTime) ==
    SelectSeq(events, LAMBDA e : startTime <= e.time /\ e.time <= endTime)

HonestPage(events, startTime, endTime) ==
    LET hit == InWindow(events, startTime, endTime)
    IN  [isList |-> TRUE,
         rows |-> [i \in 1..(IF Len(hit) < PageLimit THEN Len(hit) ELSE PageLimit) |->
                      [ok |-> TRUE, income |-> hit[i].income, time |-> hit[i].time]]]

NotAList == [isList |-> FALSE, rows |-> <<>>]

\* ------------------------------------------------------------- the state
Threads == {1, 2}   \* thread 1 is main(); the web server runs one per request

VARIABLES
    clock,          \* the wall clock, in ms
    srvEvents,      \* the FUNDING_FEE income events the exchange holds, oldest first
    credentials,    \* --api-key/--api-secret or the environment give both
    recordFile,     \* args.record_file: [exists, lines]
    summaryFile,    \* args.summary_csv: the metrics last written, or NoSummary
    chartFile,      \* args.chart_file: what build_charts last drew, or NoChart
    pc,             \* per thread: where it is in main / do_GET / run_pipeline
    args,           \* per thread: skip_record, realized_window_hours, start_dt
    now,            \* per thread: run_pipeline's now
    positions,      \* per thread: get_positions()
    rates,          \* per thread: get_premium_index()
    intervals,      \* per thread: get_funding_intervals()
    exposure,       \* per thread: the sums of collect_snapshot's position loop
    inc,            \* per thread: the locals of get_funding_income_sum
    snapshot,       \* per thread: the FundingSnapshot collect_snapshot returned
    file_exists,    \* per thread: save_record's file_exists
    records,        \* per thread: load_records()
    metrics,        \* per thread: compute_metrics()
    raised,         \* per thread: the exception that left run_pipeline, or NoExc
    status,         \* per thread: the exit status of main / the HTTP status sent
    sig,            \* per thread: urlopen calls and clock resyncs of its last _signed_request
    page,           \* per thread: the requests of the current income call, the sizes of
                    \* its pages, and the startTime and latest parsed time of the last page
    req,            \* per thread: its income requests: whether none, one or more were
                    \* made, the startTime of the last, the highest startTime before it
    before,         \* per thread: the three files as they were when its run began
    cause,          \* per thread: what went wrong, in the terms of the error table
    log,            \* the recording runs that completed, in order
    ticks           \* runs of the pipeline started so far

env == <<clock, srvEvents, credentials>>
files == <<recordFile, summaryFile, chartFile>>
collected == <<now, positions, rates, intervals, exposure, inc, snapshot>>
loaded == <<file_exists, records, metrics>>
ends == <<raised, status, cause>>
ghosts == <<sig, page, req, before, log>>
vars == <<env, files, pc, args, collected, loaded, ends, ghosts, ticks>>

NoSummary == [written |-> FALSE, metrics |-> EmptyMetrics]
NoChart == [written |-> FALSE, cumulative |-> <<>>, metrics |-> EmptyMetrics]
NoExc == "none"
NoStatus == -1
NoArgs == [skip_record |-> TRUE, realized_window_hours |-> 0, start_dt |-> NoStart]
NoMaps == [s \in Symbols |-> Bad]
NoExposure == CollectExposure(<<>>, NoMaps, NoMaps)
NoInc == [page_start |-> 0, end_ms |-> 0, total |-> Zero, returned |-> TRUE]
NoSnapshot == FundingSnapshot(0, Zero, 1, NoExposure)
NoSig == [sends |-> 0, resyncs |-> 0, outcome |-> "none"]
NoPage == [requests |-> 0, sizes |-> <<>>, start |-> 0, parsed |-> FALSE, latest |-> 0]
NoReq == [asked |-> 0, last |-> 0, highest |-> 0]

\* ------------------------------------------------------ the environment
Incomes == {<<-1, 1>>, <<3, 8>>}
Windows == {0, 2}
StartDates == {NoStart, 2}

\* No run of the pipeline is under way.  A run reads the clock once and the
\* exchange answers from the events up to that reading, so the steps of the
\* environment are taken between runs.
Quiet == \A t \in Threads : pc[t] \in {"off", "idle"}

\* Time passes.
Tick ==
    /\ Quiet
    /\ clock < MaxTime
    /\ clock' = clock + 1
    /\ UNCHANGED <<srvEvents, credentials, files, pc, args, collected, loaded,
                   ends, ghosts, ticks>>

\* A funding settlement: the exchange books an income event at the current time.
Settle ==
    /\ Quiet
    /\ Len(srvEvents) < MaxEvents
    /\ \E income \in Incomes :
          srvEvents' = Append(srvEvents, [time |-> clock, income |-> income])
    /\ UNCHANGED <<clock, credentials, files, pc, args, collected, loaded,
                   ends, ghosts, ticks>>

\* ------------------------------------------------------------ requests
\* What a request meets: an answer, the exchange's rejection of the request
\* timestamp (HTTP 400, code -1021), another HTTP error status, a network
\* failure, or a body json.loads cannot parse.
SignedOutcomes == {"ok", "timestamp", "HTTPError", "URLError", "ValueError"}
PublicOutcomes == {"ok", "HTTPError", "URLError", "ValueError"}

\* The exception urlopen / json.loads raises for an outcome.
ExcOf(outcome) == IF outcome = "timestamp" THEN "HTTPError" ELSE outcome

\* The same, as a row of the error table.
CauseOf(outcome) ==
    CASE outcome = "timestamp" -> "ClockSkewError"
      [] outcome = "ValueError" -> "ProtocolError"
      [] OTHER -> "TransportError"

\* _signed_request: one urlopen; whatever it raises leaves the function.
SignedRequest(outcome) == [sends |-> 1, resyncs |-> 0, outcome |-> outcome]

\* (a variant that notes the error and carries on to save_record)
RaiseAndCarryOn(t, exc, why) ==
    /\ raised' = [raised EXCEPT ![t] = exc]
    /\ cause' = [cause EXCEPT ![t] = why]
    /\ pc' = [pc EXCEPT ![t] = "save"]

\* The exception leaves collect_snapshot and run_pipeline.
Raise(t, exc, why) ==
    /\ raised' = [raised EXCEPT ![t] = exc]
    /\ cause' = [cause EXCEPT ![t] = why]
    /\ pc' = [pc EXCEPT ![t] = "raised"]

BTCLong == [positionAmt |-> Num(FromInt(1)), markPrice |-> Num(FromInt(2)), symbol |-> "BTC"]
ETHShort == [positionAmt |-> Num(FromInt(-1)), markPrice |-> Num(FromInt(1)), symbol |-> "ETH"]
PositionResponses ==
    {NotAList,
     [isList |-> TRUE, rows |-> <<BTCLong, ETHShort>>]}
PremiumResponses ==
    {<<[symbol |-> "BTC", lastFundingRate |-> Num(FromInt(6))],
       [symbol |-> "ETH", lastFundingRate |-> Num(FromInt(-4))]>>}
IntervalResponses ==
    {[isList |-> TRUE,
      rows |-> <<[symbol |-> "BTC", fundingIntervalHours |-> Num(FromInt(4))]>>]}

\* The bodies a request may bring: one of `bodies` when it is answered, and
\* nothing to read when it raises.
Answers(outcome, bodies, nothing) == IF outcome = "ok" THEN bodies ELSE {nothing}

\* What the exchange answers thread t's next income query: the page of its
\* events, or a body that is not a list.
IncomeAnswers(t) == {HonestPage(srvEvents, inc[t].page_start, inc[t].end_ms), NotAList}

\* ------------------------------------------------------- run_pipeline
ArgSets ==
    [skip_record : BOOLEAN, realized_window_hours : Windows, start_dt : StartDates]

\* main() / do_GET has parsed its arguments and calls run_pipeline.
Start(t, a) ==
    /\ pc[t] = "idle"
    /\ ticks < MaxTicks
    /\ ticks' = ticks + 1
    /\ args' = [args EXCEPT ![t] = a]
    /\ pc' = [pc EXCEPT ![t] = IF a.skip_record THEN "load" ELSE "creds"]
    /\ before' = [before EXCEPT ![t] = files]
    /\ UNCHANGED <<env, files, collected, loaded, ends, sig, page, req, log>>

\* resolve_api_credentials, BinanceClient(...), now = datetime.now().
ResolveCredentials(t) ==
    /\ pc[t] = "creds"
    /\ IF credentials
       THEN /\ now' = [now EXCEPT ![t] = clock]
            /\ pc' = [pc EXCEPT ![t] = "positions"]
            /\ UNCHANGED ends
       ELSE /\ Raise(t, "RuntimeError", "ConfigError")
            /\ UNCHANGED <<status, now>>
    /\ UNCHANGED <<env, files, args, positions, rates, intervals, exposure, inc, snapshot,
                   loaded, ghosts, ticks>>

\* client.get_positions(): a signed request; the answer must be a list.
GetPositions(t, outcome, data) ==
    /\ pc[t] = "positions"
    /\ sig' = [sig EXCEPT ![t] = SignedRequest(outcome)]
    /\ IF outcome # "ok"
       THEN /\ Raise(t, ExcOf(outcome), CauseOf(outcome))
            /\ UNCHANGED <<status, positions>>
       ELSE IF ~data.isList
       THEN /\ Raise(t, "RuntimeError", "ProtocolError")
            /\ UNCHANGED <<status, positions>>
       ELSE /\ positions' = [positions EXCEPT ![t] = data.rows]
            /\ pc' = [pc EXCEPT ![t] = "rates"]
            /\ UNCHANGED ends
    /\ UNCHANGED <<env, files, args, now, rates, intervals, exposure, inc, snapshot,
                   loaded, page, req, before, log, ticks>>

\* client.get_premium_index(): a public request.
GetPremiumIndex(t, outcome, data) ==
    /\ pc[t] = "rates"
    /\ IF outcome # "ok"
       THEN /\ Raise(t, ExcOf(outcome), CauseOf(outcome))
            /\ UNCHANGED <<status, rates>>
       ELSE /\ rates' = [rates EXCEPT ![t] = get_premium_index(data)]
            /\ pc' = [pc EXCEPT ![t] = "intervals"]
            /\ UNCHANGED ends
    /\ UNCHANGED <<env, files, args, now, positions, intervals, exposure, inc, snapshot,
                   loaded, ghosts, ticks>>

\* client.get_funding_intervals(), then the loop over the positions, then the
\* first lines of get_funding_income_sum for [now - window_h hours, now].
GetFundingIntervals(t, outcome, data) ==
    /\ pc[t] = "intervals"
    /\ IF outcome # "ok"
       THEN /\ Raise(t, ExcOf(outcome), CauseOf(outcome))
            /\ UNCHANGED <<status, exposure, inc, intervals>>
       ELSE /\ intervals' = [intervals EXCEPT ![t] = get_funding_intervals(data)]
            /\ exposure' = [exposure EXCEPT ![t] =
                   CollectExposure(positions[t], rates[t], get_funding_intervals(data))]
            /\ inc' = [inc EXCEPT ![t] =
                   IncomeEntry(WindowStart(now[t], args[t].realized_window_hours), now[t])]
            /\ pc' = [pc EXCEPT ![t] = "income"]
            /\ UNCHANGED ends
    /\ UNCHANGED <<env, files, args, now, positions, rates, snapshot, loaded,
                   ghosts, ticks>>

\* One pass of the while loop of get_funding_income_sum: a signed request for
\* the page that starts at page_start, then the loop body.
IncomeStep(t, outcome, data) ==
    /\ pc[t] = "income"
    /\ IncomeLoops(inc[t])
    /\ sig' = [sig EXCEPT ![t] = SignedRequest(outcome)]
    /\ req' = [req EXCEPT ![t] =
           [asked |-> IF req[t].asked < 2 THEN req[t].asked + 1 ELSE 2,
            last |-> inc[t].page_start,
            highest |-> IF req[t].asked = 0 THEN inc[t].page_start
                        ELSE Max2(req[t].highest, req[t].last)]]
    /\ IF outcome # "ok"
       THEN /\ Raise(t, ExcOf(outcome), CauseOf(outcome))
            /\ page' = [page EXCEPT ![t].requests = @ + 1]
            /\ UNCHANGED <<status, inc>>
       ELSE /\ inc' = [inc EXCEPT ![t] = IncomeIteration(inc[t], data)]
            /\ page' = [page EXCEPT ![t] =
                   [requests |-> page[t].requests + 1,
                    sizes |-> Append(page[t].sizes,
                                     IF data.isList THEN Len(data.rows) ELSE -1),
                    start |-> inc[t].page_start,
                    parsed |-> EventTimes(data.rows) # {},
                    latest |-> IF EventTimes(data.rows) # {}
                               THEN SetMax(EventTimes(data.rows)) ELSE 0]]
            /\ UNCHANGED <<pc, ends>>
    /\ UNCHANGED <<env, files, args, now, positions, rates, intervals, exposure, snapshot,
                   loaded, before, log, ticks>>

\* get_funding_income_sum returns; collect_snapshot builds the snapshot.
IncomeReturn(t) ==
    /\ pc[t] = "income"
    /\ ~IncomeLoops(inc[t])
    /\ snapshot' = [snapshot EXCEPT ![t] =
           FundingSnapshot(now[t], inc[t].total,
                           WindowHours(args[t].realized_window_hours), exposure[t])]
    /\ pc' = [pc EXCEPT ![t] = "save"]
    /\ UNCHANGED <<env, files, args, now, positions, rates, intervals, exposure, inc,
                   loaded, ends, ghosts, ticks>>

\* save_record: file_exists = csv_path.exists().
SaveExists(t) ==
    /\ pc[t] = "save"
    /\ file_exists' = [file_exists EXCEPT ![t] = recordFile.exists]
    /\ pc' = [pc EXCEPT ![t] = "open"]
    /\ UNCHANGED <<env, files, args, collected, records, metrics, ends, ghosts, ticks>>

\* save_record: csv_path.open("a") creates the file when there is none.
SaveOpen(t) ==
    /\ pc[t] = "open"
    /\ recordFile' = [recordFile EXCEPT !.exists = TRUE]
    /\ pc' = [pc EXCEPT ![t] = "write"]
    /\ UNCHANGED <<env, summaryFile, chartFile, args, collected, loaded, ends,
                   ghosts, ticks>>

\* (a variant that opens the file with "w": what was there is lost)
SaveCloseTruncating(t) ==
    /\ pc[t] = "write"
    /\ recordFile' = [recordFile EXCEPT !.lines = SaveBuffer(snapshot[t], FALSE)]
    /\ pc' = [pc EXCEPT ![t] = "load"]
    /\ UNCHANGED <<env, summaryFile, chartFile, args, collected, loaded, ends,
                   ghosts, ticks>>

\* save_record: the header (when file_exists was false) and the row reach
\* the file when the with block closes it.
SaveClose(t) ==
    /\ pc[t] = "write"
    /\ recordFile' = [recordFile EXCEPT
           !.lines = recordFile.lines \o SaveBuffer(snapshot[t], file_exists[t])]
    /\ pc' = [pc EXCEPT ![t] = "load"]
    /\ UNCHANGED <<env, summaryFile, chartFile, args, collected, loaded, ends,
                   ghosts, ticks>>

\* records = load_records(args.record_file, start_dt).
LoadRecords(t) ==
    /\ pc[t] = "load"
    /\ records' = [records EXCEPT ![t] = load_records(recordFile, args[t].start_dt)]
    /\ pc' = [pc EXCEPT ![t] = "summary"]
    /\ UNCHANGED <<env, files, args, collected, file_exists, metrics, ends,
                   ghosts, ticks>>

\* metrics = compute_metrics(records); write_summary_csv(metrics, ...).
WriteSummary(t) ==
    /\ pc[t] = "summary"
    /\ metrics' = [metrics EXCEPT ![t] = compute_metrics(records[t])]
    /\ summaryFile' = [written |-> TRUE, metrics |-> compute_metrics(records[t])]
    /\ pc' = [pc EXCEPT ![t] = "chart"]
    /\ UNCHANGED <<env, recordFile, chartFile, args, collected, file_exists,
                   records, ends, ghosts, ticks>>

\* The running total build_charts draws.
RECURSIVE Cumulative(_, _)
Cumulative(total, recs) ==
    IF recs = <<>> THEN <<>>
    ELSE <<FAdd(total, recs[1].realized_fee_window)>>
         \o Cumulative(FAdd(total, recs[1].realized_fee_window), Tail(recs))

\* build_charts(records, metrics, args.chart_file); run_pipeline returns.
BuildCharts(t) ==
    /\ pc[t] = "chart"
    /\ chartFile' = [written |-> TRUE,
                     cumulative |-> Cumulative(Zero, records[t]),
                     metrics |-> metrics[t]]
    /\ pc' = [pc EXCEPT ![t] = "returned"]
    /\ UNCHANGED <<env, recordFile, summaryFile, args, collected, loaded, ends,
                   ghosts, ticks>>

\* ---------------------------------------------------------------- main
ExitOk == 0
ExitUncaught == 1   \* an exception no except clause of main names: a traceback
ExitHttp == 2
ExitRuntime == 3

\* The exit status main gives an exception that left run_pipeline.
ExitStatus(exc) ==
    CASE exc = NoExc -> ExitOk
      [] exc = "HTTPError" -> ExitHttp
      [] exc = "URLError" -> ExitHttp
      [] exc = "RuntimeError" -> ExitRuntime
      [] OTHER -> ExitUncaught

\* main prints the metrics, or the error, and the process ends.
MainReturn(t) ==
    /\ pc[t] \in {"returned", "raised"}
    /\ status' = [status EXCEPT ![t] = ExitStatus(raised[t])]
    /\ pc' = [pc EXCEPT ![t] = "exited"]
    /\ log' = IF pc[t] = "returned" /\ ~args[t].skip_record
              THEN Append(log, [events |-> srvEvents,
                                start_dt |-> args[t].start_dt,
                                pages |-> page[t].sizes,
                                snapshot |-> snapshot[t],
                                total_realized |-> metrics[t].total_realized])
              ELSE log
    /\ UNCHANGED <<env, files, args, collected, loaded, raised, cause, sig, page,
                   req, before, ticks>>

\* The process (the request's thread) is gone, and its memory with it.
Forget(t) ==
    /\ pc[t] = "exited"
    /\ pc' = [pc EXCEPT ![t] = "idle"]
    /\ args' = [args EXCEPT ![t] = NoArgs]
    /\ now' = [now EXCEPT ![t] = 0]
    /\ positions' = [positions EXCEPT ![t] = <<>>]
    /\ rates' = [rates EXCEPT ![t] = NoMaps]
    /\ intervals' = [intervals EXCEPT ![t] = NoMaps]
    /\ exposure' = [exposure EXCEPT ![t] = NoExposure]
    /\ inc' = [inc EXCEPT ![t] = NoInc]
    /\ snapshot' = [snapshot EXCEPT ![t] = NoSnapshot]
    /\ file_exists' = [file_exists EXCEPT ![t] = FALSE]
    /\ records' = [records EXCEPT ![t] = <<>>]
    /\ metrics' = [metrics EXCEPT ![t] = EmptyMetrics]
    /\ raised' = [raised EXCEPT ![t] = NoExc]
    /\ status' = [status EXCEPT ![t] = NoStatus]
    /\ cause' = [cause EXCEPT ![t] = NoExc]
    /\ sig' = [sig EXCEPT ![t] = NoSig]
    /\ page' = [page EXCEPT ![t] = NoPage]
    /\ before' = [before EXCEPT ![t] = <<NoFile, NoSummary, NoChart>>]
    /\ req' = [req EXCEPT ![t] = NoReq]
    /\ UNCHANGED <<env, files, log, ticks>>

\* ------------------------------------------------- the one-shot program
InitThreads ==
    /\ args = [t \in Threads |-> NoArgs]
    /\ now = [t \in Threads |-> 0]
    /\ positions = [t \in Threads |-> <<>>]
    /\ rates = [t \in Threads |-> NoMaps]
    /\ intervals = [t \in Threads |-> NoMaps]
    /\ exposure = [t \in Threads |-> NoExposure]
    /\ inc = [t \in Threads |-> NoInc]
    /\ snapshot = [t \in Threads |-> NoSnapshot]
    /\ file_exists = [t \in Threads |-> FALSE]
    /\ records = [t \in Threads |-> <<>>]
    /\ metrics = [t \in Threads |-> EmptyMetrics]
    /\ raised = [t \in Threads |-> NoExc]
    /\ status = [t \in Threads |-> NoStatus]
    /\ cause = [t \in Threads |-> NoExc]
    /\ sig = [t \in Threads |-> NoSig]
    /\ page = [t \in Threads |-> NoPage]
    /\ before = [t \in Threads |-> <<NoFile, NoSummary, NoChart>>]
    /\ req = [t \in Threads |-> NoReq]
    /\ log = <<>>
    /\ ticks = 0

\* main() run from the command line, again and again: one thread.
Init ==
    /\ clock = 0
    /\ srvEvents = <<>>
    /\ credentials \in BOOLEAN
    /\ recordFile = NoFile
    /\ summaryFile = NoSummary
    /\ chartFile = NoChart
    /\ pc = [t \in Threads |-> IF t = 1 THEN "idle" ELSE "off"]
    /\ InitThreads

Next ==
    \/ Tick
    \/ Settle
    \/ \E a \in ArgSets : Start(1, a)
    \/ ResolveCredentials(1)
    \/ \E o \in SignedOutcomes :
          \E d \in Answers(o, PositionResponses, NotAList) : GetPositions(1, o, d)
    \/ \E o \in PublicOutcomes :
          \E d \in Answers(o, PremiumResponses, <<>>) : GetPremiumIndex(1, o, d)
    \/ \E o \in PublicOutcomes :
          \E d \in Answers(o, IntervalResponses, NotAList) : GetFundingIntervals(1, o, d)
    \/ \E o \in SignedOutcomes :
          \E d \in Answers(o, IncomeAnswers(1), NotAList) : IncomeStep(1, o, d)
    \/ IncomeReturn(1)
    \/ SaveExists(1)
    \/ SaveOpen(1)
    \/ SaveClose(1)
    \/ LoadRecords(1)
    \/ WriteSummary(1)
    \/ BuildCharts(1)
    \/ MainReturn(1)
    \/ Forget(1)

Spec == Init /\ [][Next]_vars

\* ------------------------------------- the income query on its own
\* collect_snapshot's income query, called again and again by one client
\* against an exchange that may answer anything: any rows, in any order, with
\* any times, parseable or not.
\* The row times tried are those around the window asked for: before the
\* requested startTime, at it, after it, and at the requested endTime.
RowIncomes == {<<1, 1>>}
RowTimes(t) ==
    {inc[t].page_start - 1, inc[t].page_start, inc[t].page_start + 1, inc[t].end_ms}
ArbitraryRows(t) ==
    {BadRow} \cup [ok : {TRUE}, income : RowIncomes, time : RowTimes(t)]
RowLists(t) == UNION {[1..n -> ArbitraryRows(t)] : n \in 0..PageLimit}
ArbitraryPages(t) == {NotAList} \cup [isList : {TRUE}, rows : RowLists(t)]

\* collect_snapshot reaches its call of get_funding_income_sum.
BeginIncome(t, w) ==
    /\ pc[t] = "idle"
    /\ ticks < MaxTicks
    /\ ticks' = ticks + 1
    /\ args' = [args EXCEPT ![t] =
           [skip_record |-> FALSE, realized_window_hours |-> w, start_dt |-> NoStart]]
    /\ now' = [now EXCEPT ![t] = clock]
    /\ inc' = [inc EXCEPT ![t] = IncomeEntry(WindowStart(clock, w), clock)]
    /\ page' = [page EXCEPT ![t] = NoPage]
    /\ pc' = [pc EXCEPT ![t] = "income"]
    /\ UNCHANGED <<env, files, positions, rates, intervals, exposure, snapshot, loaded,
                   ends, sig, req, before, log>>

\* The caller has the snapshot (or the exception) and will call again.
EndIncome(t) ==
    /\ pc[t] \in {"save", "raised"}
    /\ pc' = [pc EXCEPT ![t] = "idle"]
    /\ raised' = [raised EXCEPT ![t] = NoExc]
    /\ cause' = [cause EXCEPT ![t] = NoExc]
    /\ args' = [args EXCEPT ![t] = NoArgs]
    /\ now' = [now EXCEPT ![t] = 0]
    /\ inc' = [inc EXCEPT ![t] = NoInc]
    /\ snapshot' = [snapshot EXCEPT ![t] = NoSnapshot]
    /\ sig' = [sig EXCEPT ![t] = NoSig]
    /\ page' = [page EXCEPT ![t] = NoPage]
    /\ UNCHANGED <<env, files, positions, rates, intervals, exposure, loaded, status, req,
                   before, log, ticks>>

InitIncome ==
    /\ clock = 0
    /\ srvEvents = <<>>
    /\ credentials = TRUE
    /\ recordFile = NoFile
    /\ summaryFile = NoSummary
    /\ chartFile = NoChart
    /\ pc = [t \in Threads |-> IF t = 1 THEN "idle" ELSE "off"]
    /\ InitThreads

NextIncome ==
    \/ Tick
    \/ \E w \in Windows : BeginIncome(1, w)
    \/ \E o \in SignedOutcomes :
          \E d \in Answers(o, ArbitraryPages(1), NotAList) : IncomeStep(1, o, d)
    \/ IncomeReturn(1)
    \/ EndIncome(1)

SpecIncome == InitIncome /\ [][NextIncome]_vars

\* The same, with the exchange answering every request (or the request
\* failing) and the calling thread going on running: the loop body and the
\* return are taken when they can be.
FetchIncome(t) ==
    \E o \in SignedOutcomes :
        \E d \in Answers(o, ArbitraryPages(t), NotAList) : IncomeStep(t, o, d)

SpecIncomeFair ==
    SpecIncome /\ WF_vars(FetchIncome(1)) /\ WF_vars(IncomeReturn(1))

\* ------------------------------------------------------ the web server
\* run_web_server: a ThreadingHTTPServer gives every request a thread of its
\* own, and do_GET runs run_pipeline for /api/metrics with skip_record and
\* the window taken from the query.  Thread 1 serves the requests that record
\* (skip_record=0), thread 2 those that only read.
HttpOk == 200
HttpBadRequest == 400

\* The status do_GET answers with: its except clause names RuntimeError,
\* HTTPError, URLError and ValueError, which are all that run_pipeline raises
\* here.
HttpStatus(exc) == IF exc = NoExc THEN HttpOk ELSE HttpBadRequest

WebOutcomes == {"ok", "HTTPError"}
WebArgSets(t) == {a \in ArgSets : a.skip_record = (t # 1)}

\* save_record closes the file while another thread may be reading it: the
\* buffer goes to the file in one piece (SaveClose) or the reader's read falls
\* in the middle of the write and finds the last row cut short, in one of its
\* first fields ("mid") or in its last one ("last").
Cuts == {"mid", "last"}
CutLast(lines, cut) == [lines EXCEPT ![Len(lines)].cut = cut]

SaveWritePart(t, cut) ==
    /\ pc[t] = "write"
    /\ recordFile' = [recordFile EXCEPT
           !.lines = recordFile.lines
                     \o CutLast(SaveBuffer(snapshot[t], file_exists[t]), cut)]
    /\ pc' = [pc EXCEPT ![t] = "flush"]
    /\ UNCHANGED <<env, summaryFile, chartFile, args, collected, loaded, ends,
                   ghosts, ticks>>

\* The rest of the row is in the file.
SaveWriteRest(t) ==
    /\ pc[t] = "flush"
    /\ recordFile' = [recordFile EXCEPT !.lines = CutLast(recordFile.lines, "full")]
    /\ pc' = [pc EXCEPT ![t] = "load"]
    /\ UNCHANGED <<env, summaryFile, chartFile, args, collected, loaded, ends,
                   ghosts, ticks>>

\* do_GET sends the metrics (200) or the error (400).
Respond(t) ==
    /\ pc[t] \in {"returned", "raised"}
    /\ status' = [status EXCEPT ![t] = HttpStatus(raised[t])]
    /\ pc' = [pc EXCEPT ![t] = "exited"]
    /\ UNCHANGED <<env, files, args, collected, loaded, raised, cause, ghosts, ticks>>

InitWeb ==
    /\ clock = 0
    /\ srvEvents = <<[time |-> 0, income |-> FromInt(-1)]>>
    /\ credentials = TRUE
    /\ recordFile = NoFile
    /\ summaryFile = NoSummary
    /\ chartFile = NoChart
    /\ pc = [t \in Threads |-> "idle"]
    /\ InitThreads

NextWeb ==
    \/ \E t \in Threads : \E a \in WebArgSets(t) : Start(t, a)
    \/ ResolveCredentials(1)
    \/ \E o \in WebOutcomes :
          \E d \in Answers(o, PositionResponses, NotAList) : GetPositions(1, o, d)
    \/ \E d \in PremiumResponses : GetPremiumIndex(1, "ok", d)
    \/ \E d \in IntervalResponses : GetFundingIntervals(1, "ok", d)
    \/ \E d \in IncomeAnswers(1) : IncomeStep(1, "ok", d)
    \/ IncomeReturn(1)
    \/ SaveExists(1)
    \/ SaveOpen(1)
    \/ SaveClose(1)
    \/ \E cut \in Cuts : SaveWritePart(1, cut)
    \/ SaveWriteRest(1)
    \/ \E t \in Threads : LoadRecords(t)
    \/ \E t \in Threads : WriteSummary(t)
    \/ \E t \in Threads : BuildCharts(t)
    \/ \E t \in Threads : Respond(t)
    \/ \E t \in Threads : Forget(t)

SpecWeb == InitWeb /\ [][NextWeb]_vars

\* The web server with every request a recording one
\* (/api/metrics?skip_record=0): the handler threads all run collect_snapshot
\* and save_record on the one record file, which does not exist at first.
\* Each save_record hands its buffer to the file in one piece when it closes.
RecordingArgSets == {a \in ArgSets : ~a.skip_record}

InitWriters ==
    /\ clock = 0
    /\ srvEvents = <<[time |-> 0, income |-> FromInt(-1)]>>
    /\ credentials = TRUE
    /\ recordFile = NoFile
    /\ summaryFile = NoSummary
    /\ chartFile = NoChart
    /\ pc = [t \in Threads |-> "idle"]
    /\ InitThreads

NextWriters ==
    \/ \E t \in Threads : \E a \in RecordingArgSets : Start(t, a)
    \/ \E t \in Threads : ResolveCredentials(t)
    \/ \E t \in Threads :
          \E d \in PositionResponses \ {NotAList} : GetPositions(t, "ok", d)
    \/ \E t \in Threads : \E d \in PremiumResponses : GetPremiumIndex(t, "ok", d)
    \/ \E t \in Threads : \E d \in IntervalResponses : GetFundingIntervals(t, "ok", d)
    \/ \E t \in Threads :
          IncomeStep(t, "ok", HonestPage(srvEvents, inc[t].page_start, inc[t].end_ms))
    \/ \E t \in Threads : IncomeReturn(t)
    \/ \E t \in Threads : SaveExists(t)
    \/ \E t \in Threads : SaveOpen(t)
    \/ \E t \in Threads : SaveClose(t)
    \/ \E t \in Threads : LoadRecords(t)
    \/ \E t \in Threads : WriteSummary(t)
    \/ \E t \in Threads : BuildCharts(t)
    \/ \E t \in Threads : Respond(t)

SpecWriters == InitWriters /\ [][NextWriters]_vars

\* ------------------------------------------- collect_snapshot on its own
\* The exposure part of collect_snapshot applied to position lists, rate maps
\* and interval maps of every shape: rows whose fields do not parse, amounts
\* and prices of 0, rows without a symbol, symbols without a rate or without
\* an interval, intervals of 0.
Amounts == {Num(FromInt(3)), Num(FromInt(-5))}
Prices == {Num(FromInt(1)), Num(FromInt(7))}
PositionRows ==
    [positionAmt : Amounts, markPrice : Prices, symbol : Symbols]
    \cup {[positionAmt |-> Bad, markPrice |-> Num(FromInt(1)), symbol |-> "BTC"],
          [positionAmt |-> Num(Zero), markPrice |-> Num(FromInt(1)), symbol |-> "BTC"],
          [positionAmt |-> Num(FromInt(3)), markPrice |-> Num(Zero), symbol |-> "ETH"],
          [positionAmt |-> Num(FromInt(3)), markPrice |-> Num(FromInt(1)),
           symbol |-> NoSymbol]}
PositionLists == UNION {[1..n -> PositionRows] : n \in 0..MaxPositions}
RateMaps == [Symbols -> {Bad, Num(<<3, 4>>), Num(FromInt(-1))}]
IntervalRows(symbol, hours) ==
    [symbol : {symbol}, fundingIntervalHours : hours]
IntervalBodies ==
    {NotAList}
    \cup [isList : {TRUE},
          rows : {<<>>} \cup {<<a, b>> : a \in IntervalRows("BTC", {Num(FromInt(1)), Num(Zero)}),
                                        b \in IntervalRows("ETH", {Num(FromInt(3)), Bad})}]

InitExposure ==
    /\ clock = 0
    /\ srvEvents = <<>>
    /\ credentials = TRUE
    /\ recordFile = NoFile
    /\ summaryFile = NoSummary
    /\ chartFile = NoChart
    /\ pc = [t \in Threads |-> IF t = 1 THEN "intervals" ELSE "off"]
    /\ \E ps \in PositionLists :
          positions = [t \in Threads |-> IF t = 1 THEN ps ELSE <<>>]
    /\ \E rs \in RateMaps :
          rates = [t \in Threads |-> IF t = 1 THEN rs ELSE NoMaps]
    /\ args = [t \in Threads |->
          [skip_record |-> FALSE, realized_window_hours |-> 0, start_dt |-> NoStart]]
    /\ now = [t \in Threads |-> 0]
    /\ intervals = [t \in Threads |-> NoMaps]
    /\ exposure = [t \in Threads |-> NoExposure]
    /\ inc = [t \in Threads |-> NoInc]
    /\ snapshot = [t \in Threads |-> NoSnapshot]
    /\ file_exists = [t \in Threads |-> FALSE]
    /\ records = [t \in Threads |-> <<>>]
    /\ metrics = [t \in Threads |-> EmptyMetrics]
    /\ raised = [t \in Threads |-> NoExc]
    /\ cause = [t \in Threads |-> NoExc]
    /\ status = [t \in Threads |-> NoStatus]
    /\ sig = [t \in Threads |-> NoSig]
    /\ page = [t \in Threads |-> NoPage]
    /\ req = [t \in Threads |-> NoReq]
    /\ before = [t \in Threads |-> files]
    /\ log = <<>>
    /\ ticks = 0

NextExposure ==
    \E o \in PublicOutcomes :
        \E d \in Answers(o, IntervalBodies, NotAList) : GetFundingIntervals(1, o, d)

SpecExposure == InitExposure /\ [][NextExposure]_vars

\* --------------------------------------------- compute_metrics on its own
\* run_pipeline from compute_metrics on, for record lists of every shape: no
\* record, window hours that are 0 or negative, no notional at all.
RecordSet ==
    [timestamp : {0},
     realized_fee_window : {FromInt(-1), <<3, 8>>},
     realized_window_hours : {FromInt(-1), Zero, FromInt(2)},
     estimated_next_fee : {Zero},
     estimated_hourly_fee : {<<1, 2>>},
     total_abs_notional : {Zero, FromInt(3)},
     weighted_rate_per_hour : {<<1, 4>>}]
RecordLists == UNION {[1..n -> RecordSet] : n \in 0..MaxRecords}

InitMetrics ==
    /\ clock = 0
    /\ srvEvents = <<>>
    /\ credentials = TRUE
    /\ recordFile = NoFile
    /\ summaryFile = NoSummary
    /\ chartFile = NoChart
    /\ pc = [t \in Threads |-> IF t = 1 THEN "summary" ELSE "off"]
    /\ \E rs \in RecordLists :
          records = [t \in Threads |-> IF t = 1 THEN rs ELSE <<>>]
    /\ args = [t \in Threads |-> NoArgs]
    /\ now = [t \in Threads |-> 0]
    /\ positions = [t \in Threads |-> <<>>]
    /\ rates = [t \in Threads |-> NoMaps]
    /\ intervals = [t \in Threads |-> NoMaps]
    /\ exposure = [t \in Threads |-> NoExposure]
    /\ inc = [t \in Threads |-> NoInc]
    /\ snapshot = [t \in Threads |-> NoSnapshot]
    /\ file_exists = [t \in Threads |-> FALSE]
    /\ metrics = [t \in Threads |-> EmptyMetrics]
    /\ raised = [t \in Threads |-> NoExc]
    /\ cause = [t \in Threads |-> NoExc]
    /\ status = [t \in Threads |-> NoStatus]
    /\ sig = [t \in Threads |-> NoSig]
    /\ page = [t \in Threads |-> NoPage]
    /\ req = [t \in Threads |-> NoReq]
    /\ before = [t \in Threads |-> files]
    /\ log = <<>>
    /\ ticks = 0

NextMetrics ==
    \/ WriteSummary(1)
    \/ BuildCharts(1)

SpecMetrics == InitMetrics /\ [][NextMetrics]_vars

\* ------------------------------------- run_pipeline over any record file
\* run_pipeline started on a record file of any content: rows whose window
\* is negative, 0 or positive, a row with fields missing, a header line
\* repeated among the rows, a file that does not begin with the header, no
\* file at all.
StoredRows ==
    [kind : {"row"}, ts : {0, 2},
     f : {<<fee, hours, 0, 2, 4, 1>> : fee \in {-Scale, 2}, hours \in {-Scale, 0, 2 * Scale}},
     cut : {"full"}]
StoredLines ==
    StoredRows \cup {HeaderLine,
                     [kind |-> "row", ts |-> 0, f |-> <<2, 0, 0, 0, 0, 0>>, cut |-> "mid"]}
StoredFiles ==
    {NoFile}
    \cup [exists : {TRUE},
          lines : UNION {[1..n -> StoredLines] : n \in 0..MaxRecords}]
    \cup [exists : {TRUE},
          lines : {<<HeaderLine>> \o rest :
                      rest \in UNION {[1..n -> StoredLines] : n \in 1..MaxRecords}}]

InitLoad ==
    /\ clock = 0
    /\ srvEvents = <<>>
    /\ credentials = TRUE
    /\ recordFile \in StoredFiles
    /\ summaryFile = NoSummary
    /\ chartFile = NoChart
    /\ pc = [t \in Threads |-> IF t = 1 THEN "idle" ELSE "off"]
    /\ InitThreads

NextLoad ==
    \/ \E a \in ArgSets : Start(1, a)
    \/ ResolveCredentials(1)
    \/ \E d \in PositionResponses \ {NotAList} : GetPositions(1, "ok", d)
    \/ \E d \in PremiumResponses : GetPremiumIndex(1, "ok", d)
    \/ \E d \in IntervalResponses : GetFundingIntervals(1, "ok", d)
    \/ IncomeStep(1, "ok", HonestPage(srvEvents, inc[1].page_start, inc[1].end_ms))
    \/ IncomeReturn(1)
    \/ SaveExists(1)
    \/ SaveOpen(1)
    \/ SaveClose(1)
    \/ LoadRecords(1)
    \/ WriteSummary(1)
    \/ BuildCharts(1)

SpecLoad == InitLoad /\ [][NextLoad]_vars

\* ------------------------- the income query against a stocked exchange
\* collect_snapshot's income query against an exchange that answers every
\* request honestly and already holds events: up to one more than a page
\* holds, oldest first, several of them at one millisecond if it so happens.
BookedEvents == [time : 0..MaxTime, income : Incomes]
EventLists ==
    {ev \in UNION {[1..n -> BookedEvents] : n \in 0..(PageLimit + 1)} :
        \A i \in 1..(Len(ev) - 1) : ev[i].time <= ev[i + 1].time}

InitExchange ==
    /\ clock \in 0..MaxTime
    /\ srvEvents \in EventLists
    /\ credentials = TRUE
    /\ recordFile = NoFile
    /\ summaryFile = NoSummary
    /\ chartFile = NoChart
    /\ pc = [t \in Threads |-> IF t = 1 THEN "idle" ELSE "off"]
    /\ InitThreads

NextExchange ==
    \/ \E w \in Windows : BeginIncome(1, w)
    \/ IncomeStep(1, "ok", HonestPage(srvEvents, inc[1].page_start, inc[1].end_ms))
    \/ IncomeReturn(1)
    \/ EndIncome(1)

SpecExchange == InitExchange /\ [][NextExchange]_vars

\* ================================================================ claims
\* The loop is between two requests: the last page was full.
BetweenPages(t) == pc[t] = "income" /\ page[t].sizes # <<>> /\ IncomeLoops(inc[t])

\* Every page before the last one received was full, a page that is not full
\* ends the loop, and each page received took one request.
StopsAtFirstShortPage(t) ==
    LET sizes == page[t].sizes
    IN  /\ \A i \in 1..(Len(sizes) - 1) : sizes[i] = PageLimit
        /\ (sizes # <<>> /\ sizes[Len(sizes)] # PageLimit) => inc[t].returned
        /\ pc[t] \in {"income", "save"} => page[t].requests = Len(sizes)

\* C2 as stated: the pagination stops at the first page that is empty or
\* shorter than the page size, and after every full page the next startTime is
\* the largest event time of that page plus one.
C2_Original ==
    \A t \in Threads :
        /\ StopsAtFirstShortPage(t)
        /\ (BetweenPages(t) /\ page[t].parsed)
              => inc[t].page_start = page[t].latest + 1

\* C2 as amended: the pagination stops at the first page that is empty or
\* shorter than the page size, and after every full page the next startTime is
\* one more than the largest of the previous startTime and the parsed event
\* times of that page; a full page followed by a shorter one takes exactly two
\* requests.
C2_Pagination ==
    \A t \in Threads :
        /\ StopsAtFirstShortPage(t)
        /\ BetweenPages(t)
              => inc[t].page_start =
                     (IF page[t].parsed /\ page[t].latest > page[t].start
                      THEN page[t].latest ELSE page[t].start) + 1

\* A full page and then a page of one row: the function has returned after
\* two requests.
C2_Witness ==
    /\ pc[1] = "save"
    /\ page[1].sizes = <<PageLimit, 1>>
    /\ page[1].requests = 2

\* C3 as stated: no income request asks for a startTime below one asked for
\* earlier, within a call and from one call to the next.
C3_CursorMonotone ==
    \A t \in Threads : req[t].asked = 2 => req[t].last >= req[t].highest

\* Every income page of the i-th completed recording run was a list.
AllPagesLists(i) == \A k \in 1..Len(log[i].pages) : log[i].pages[k] >= 0

\* C1 as stated: of two recording runs in a row between which the exchange
\* booked no new income event (each answered with proper pages, and both
\* reporting over the whole record file), the second reports the same
\* total_realized as the first: no event is counted twice.
C1_NoDoubleCounting ==
    \A i \in 1..(Len(log) - 1) :
        (/\ log[i].events = log[i + 1].events
         /\ AllPagesLists(i) /\ AllPagesLists(i + 1)
         /\ log[i].start_dt = NoStart
         /\ log[i + 1].start_dt = NoStart)
            => log[i + 1].total_realized = log[i].total_realized

\* C4 as stated: a request the exchange rejects for its timestamp is followed
\* by one clock resync and one retry; any other error is not retried; a call
\* of _signed_request sends at most twice.
C4_ResyncAndRetryOnce ==
    \A t \in Threads :
        /\ sig[t].outcome = "timestamp" => sig[t].resyncs = 1 /\ sig[t].sends = 2
        /\ sig[t].outcome \in SignedOutcomes \ {"ok", "timestamp"}
              => sig[t].resyncs = 0 /\ sig[t].sends = 1
        /\ sig[t].sends <= 2

\* C5: when an exception leaves run_pipeline (from the credentials, the
\* positions query, the rate or interval lookup, or an income page), the
\* record file, the summary file and the chart file are as they were when the
\* run began.
C5_FailedRunLeavesFiles ==
    \A t \in Threads : raised[t] # NoExc => files = before[t]

\* The second income page of a run fails, with a record file already there.
C5_Witness ==
    /\ pc[1] = "raised"
    /\ page[1].requests = 2
    /\ Len(recordFile.lines) >= 2
    /\ summaryFile.written

\* C10 as stated: main lets no error end the process unclassified, gives a
\* malformed or unexpected response the exit status of a network failure, and
\* gives missing credentials another one.
C10_ExitStatusPerClass ==
    \A t \in Threads :
        pc[t] = "exited" =>
            /\ status[t] # ExitUncaught
            /\ cause[t] = "ProtocolError" => status[t] = ExitStatus("URLError")
            /\ cause[t] = "ConfigError"
                  => status[t] \notin {ExitOk, ExitStatus("URLError")}

\* The positions of thread t that the loop of collect_snapshot did not skip,
\* and rate / interval_hours of each, as the loop computes it.
Kept(t) == {i \in 1..Len(positions[t]) : ~Skipped(positions[t][i])}
HourlyRate(t, i) ==
    FDiv(RateOf(rates[t], positions[t][i].symbol),
         IntervalOf(intervals[t], positions[t][i].symbol))
HourlyRates(t) == {HourlyRate(t, i) : i \in Kept(t)}
RMin(S) == CHOOSE x \in S : \A y \in S : RLe(x, y)
RMax(S) == CHOOSE x \in S : \A y \in S : RLe(y, x)

\* collect_snapshot has left its loop over the positions.
ExposureDone(t) == pc[t] = "income" /\ page[t].requests = 0

\* C8 as stated: weighted_rate_per_hour lies between the least and the
\* greatest rate / interval_hours of the positions that were not skipped when
\* total_abs_notional > 0, and is 0 when total_abs_notional = 0.
C8_Original ==
    \A t \in Threads :
        ExposureDone(t) =>
            IF RPos(exposure[t].total_abs_notional)
            THEN /\ RLe(RMin(HourlyRates(t)), exposure[t].weighted_rate_per_hour)
                 /\ RLe(exposure[t].weighted_rate_per_hour, RMax(HourlyRates(t)))
            ELSE exposure[t].weighted_rate_per_hour = Zero

\* The relative error k roundings can add up to: k u / (1 - k u), where
\* u = 2^-MantissaBits is the unit roundoff of a float.
Gamma(k) == Rat(k, Pow2(MantissaBits) - k)

\* How far rounding can carry the weighted rate of n positions: on the way to
\* it each term goes through a product, at most n - 1 additions and the
\* final division, and each weight through at most n - 1 additions.
RateSlack(t) ==
    RMul(Gamma(2 * Cardinality(Kept(t)) + 1),
         RMax({RAbs(x) : x \in HourlyRates(t)}))

\* C8 as amended: weighted_rate_per_hour lies between the least and the
\* greatest rate / interval_hours of the positions that were not skipped, up
\* to the rounding of the float arithmetic that computes it (a relative error
\* of at most 2n + 1 roundings for n such positions), when
\* total_abs_notional > 0, and is exactly 0 when total_abs_notional = 0.
C8_WeightedRateInHull ==
    \A t \in Threads :
        ExposureDone(t) =>
            IF RPos(exposure[t].total_abs_notional)
            THEN /\ Kept(t) # {}
                 /\ RLe(RSub(RMin(HourlyRates(t)), RateSlack(t)),
                        exposure[t].weighted_rate_per_hour)
                 /\ RLe(exposure[t].weighted_rate_per_hour,
                        RAdd(RMax(HourlyRates(t)), RateSlack(t)))
            ELSE /\ Kept(t) = {}
                 /\ exposure[t].weighted_rate_per_hour = Zero

\* Two positions with different hourly rates, neither skipped: the weighted
\* rate is strictly between the two.
C8_Witness ==
    /\ ExposureDone(1)
    /\ Cardinality(Kept(1)) = 2
    /\ RLt(RMin(HourlyRates(1)), exposure[1].weighted_rate_per_hour)
    /\ RLt(exposure[1].weighted_rate_per_hour, RMax(HourlyRates(1)))

\* compute_metrics has returned to run_pipeline.
MetricsDone(t) == pc[t] \in {"chart", "returned"}
TotalCoveredHours(t) == FSum(Column(records[t], "realized_window_hours"))
SumNotional(t) == FSum(Column(records[t], "total_abs_notional"))

\* C7: compute_metrics never divides by zero: every field it returns is a
\* number; for no records every field is 0; for some records, a total of
\* covered hours that is not positive makes the hourly average (and the
\* daily, monthly and yearly fee) exactly 0, and a total of absolute notional
\* that is not positive makes the average weighted rate (and the daily,
\* monthly and yearly rate) exactly 0.
C7_NoDivisionByZero ==
    \A t \in Threads :
        MetricsDone(t) =>
            /\ \A k \in MetricKeys : Defined(metrics[t][k])
            /\ records[t] = <<>> => \A k \in MetricKeys : metrics[t][k] = Zero
            /\ ~RPos(TotalCoveredHours(t)) =>
                  \A k \in {"avg_hourly_realized", "daily_fee", "monthly_fee",
                            "yearly_fee"} : metrics[t][k] = Zero
            /\ ~RPos(SumNotional(t)) =>
                  \A k \in {"avg_weighted_rate_per_hour", "daily_rate",
                            "monthly_rate", "yearly_rate"} : metrics[t][k] = Zero

\* Two records with fees and an estimate, whose hours add up to 0 and that
\* hold no notional: the metrics are there, with the count and the total.
C7_Witness ==
    /\ pc[1] = "chart"
    /\ Len(records[1]) = 2
    /\ TotalCoveredHours(1) = Zero
    /\ SumNotional(1) = Zero
    /\ metrics[1].count = FromInt(2)
    /\ metrics[1].total_realized # Zero
    /\ metrics[1].avg_estimated_hourly_fee # Zero

\* A recording run of thread t has returned from run_pipeline with the
\* metrics of the whole record file; Appended(t) is every snapshot that
\* save_record has appended to the file, the run's own last.
ReadBack(t) ==
    pc[t] = "returned" /\ ~args[t].skip_record /\ args[t].start_dt = NoStart
Appended(t) ==
    [i \in 1..(Len(log) + 1) |-> IF i <= Len(log) THEN log[i].snapshot ELSE snapshot[t]]
NetSum(t) == RSum(Column(Appended(t), "realized_fee_window"))
HourSum(t) == RSum(Column(Appended(t), "realized_window_hours"))

\* C9 as stated: the hourly average read back is the sum of the appended net
\* amounts divided by the sum of their window hours (N / H for one event),
\* and the daily, monthly and yearly fees are that average times 24, 24 * 30
\* and 24 * 365.
C9_Original ==
    \A t \in Threads :
        ReadBack(t) =>
            LET avg == metrics[t].avg_hourly_realized
            IN  /\ avg = RDiv(NetSum(t), HourSum(t))
                /\ metrics[t].daily_fee = RMul(avg, FromInt(24))
                /\ metrics[t].monthly_fee = RMul(avg, FromInt(24 * 30))
                /\ metrics[t].yearly_fee = RMul(avg, FromInt(24 * 365))

\* |a - b| <= tol.
Within(a, b, tol) == RLe(RAbs(RSub(a, b)), tol)

\* How far the average read back can be from NetSum / HourSum for n appended
\* snapshots: each amount is written rounded to a step of 1 / Scale, at most
\* half a step off, and then goes through at most n + 1 float roundings (its
\* parsing, n - 1 additions, the division) and each window through at most n.
AvgTolerance(t) ==
    LET n == Len(log) + 1
        half_steps == Rat(n, 2 * Scale)
        abs_net == RSum([i \in 1..n |-> RAbs(Appended(t)[i].realized_fee_window)])
    IN  RDiv(RAdd(RMul(RAdd(FromInt(1), Gamma(n)),
                       RAdd(half_steps,
                            RMul(Gamma(n + 1), RAdd(abs_net, half_steps)))),
                  RMul(Gamma(n), abs_net)),
             HourSum(t))

\* C9 as amended: the hourly average read back equals the sum of the
\* appended net amounts divided by the sum of their window hours (N / H for
\* one event) up to the rounding of each stored amount to 12 decimals and of
\* the float arithmetic, and the daily, monthly and yearly fees are that
\* average times 24, 24 * 30 and 24 * 365 up to the rounding of one product
\* (daily) or two (monthly, yearly).
C9_AverageReadBack ==
    \A t \in Threads :
        ReadBack(t) =>
            LET avg == metrics[t].avg_hourly_realized
            IN  /\ Len(records[t]) = Len(log) + 1
                /\ RPos(HourSum(t))
                /\ Within(avg, RDiv(NetSum(t), HourSum(t)), AvgTolerance(t))
                /\ Within(metrics[t].daily_fee, RMul(avg, FromInt(24)),
                          RMul(Gamma(1), RAbs(RMul(avg, FromInt(24)))))
                /\ Within(metrics[t].monthly_fee, RMul(avg, FromInt(24 * 30)),
                          RMul(Gamma(2), RAbs(RMul(avg, FromInt(24 * 30)))))
                /\ Within(metrics[t].yearly_fee, RMul(avg, FromInt(24 * 365)),
                          RMul(Gamma(2), RAbs(RMul(avg, FromInt(24 * 365)))))

\* The second recording run has read back two snapshots with income in both.
C9_Witness ==
    /\ ReadBack(1)
    /\ Len(log) = 1
    /\ log[1].snapshot.realized_fee_window # Zero
    /\ snapshot[1].realized_fee_window # Zero
    /\ metrics[1].avg_hourly_realized # Zero

\* The record file as it is after the first k of its lines were written
\* whole, and the records a reader with thread t's start date loads from it.
WholeLines(k) == [i \in 1..k |-> [recordFile.lines[i] EXCEPT !.cut = "full"]]
RecordsAfter(t, k) ==
    load_records([exists |-> TRUE, lines |-> WholeLines(k)], args[t].start_dt)

\* C6 as stated: with one writer, what a reader loads and the metrics it
\* answers with are those of the record file after some whole number of
\* completed recording runs: never those of a row that is only partly there.
C6_ReadersSeeWholeTicks ==
    \A t \in Threads :
        /\ pc[t] \in {"summary", "chart", "returned"}
              => \E k \in 0..Len(recordFile.lines) : records[t] = RecordsAfter(t, k)
        /\ pc[t] \in {"chart", "returned"}
              => \E k \in 0..Len(recordFile.lines) :
                     metrics[t] = compute_metrics(RecordsAfter(t, k))

\* The data rows among the lines of a record file, and whether one sequence
\* of lines begins with another.
IsRow(line) == line.kind = "row"
DataRows(lines) == SelectSeq(lines, IsRow)
IsPrefix(a, b) == Len(a) <= Len(b) /\ SubSeq(b, 1, Len(a)) = a

\* Thread t's run has ended: run_pipeline returned or raised.
RunEnded(t) == pc[t] \in {"returned", "raised", "exited"}

\* C11: the record file is append-only.  From the start of a run on, the
\* lines the file held when the run began are still its first lines,
\* unchanged and in order; a run that ends having recorded has added exactly
\* one data row, and a run that failed or that skipped recording has added
\* none.
C11_AppendOnly ==
    \A t \in Threads :
        pc[t] \notin {"off", "idle"} =>
            LET old == before[t][1].lines
                added == Len(DataRows(recordFile.lines)) - Len(DataRows(old))
            IN  /\ IsPrefix(old, recordFile.lines)
                /\ RunEnded(t) =>
                      added = (IF raised[t] = NoExc /\ ~args[t].skip_record
                               THEN 1 ELSE 0)

\* The second recording run has returned: the row of the first is still the
\* first data row and the file holds two.
C11_Witness ==
    /\ pc[1] = "returned"
    /\ ~args[1].skip_record
    /\ Len(DataRows(before[1][1].lines)) = 1
    /\ Len(DataRows(recordFile.lines)) = 2
    /\ recordFile.lines[2] = before[1][1].lines[2]

\* collect_snapshot has returned thread t's snapshot; load_records has
\* returned thread t's records.
SnapshotTaken(t) == pc[t] \in {"save", "open", "write", "load", "summary", "chart", "returned"}
                    /\ ~args[t].skip_record
RecordsLoaded(t) == pc[t] \in {"summary", "chart", "returned"}

\* C12: every record that contributes to the metrics has window hours > 0.
\* The snapshot collect_snapshot returns has a positive window whatever window
\* was asked for (0 included); every record load_records returns has a
\* positive window, whatever rows the file holds; and the covered hours of a
\* loaded list that is not empty add up to more than 0.
C12_PositiveWindows ==
    \A t \in Threads :
        /\ SnapshotTaken(t) => RPos(snapshot[t].realized_window_hours)
        /\ RecordsLoaded(t) =>
              /\ \A i \in 1..Len(records[t]) : RPos(records[t][i].realized_window_hours)
              /\ records[t] # <<>> => RPos(TotalCoveredHours(t))

\* A run that asked for a window of 0 has recorded into a file that held a
\* row with a window of 0 and a row with a negative one: it has loaded its own
\* record alone.
C12_Witness ==
    /\ pc[1] = "chart"
    /\ ~args[1].skip_record
    /\ args[1].realized_window_hours = 0
    /\ args[1].start_dt = NoStart
    /\ Len(recordFile.lines) = 4
    /\ recordFile.lines[2].f[2] = 0
    /\ recordFile.lines[3].f[2] < 0
    /\ Len(records[1]) = 1

\* The incomes of the events the exchange holds with time in the window
\* thread t asked for, oldest first.
IncomesInWindow(t) ==
    LET hit == InWindow(srvEvents, WindowStart(now[t], args[t].realized_window_hours), now[t])
    IN  [i \in 1..Len(hit) |-> hit[i].income]

\* C13 as stated: when get_funding_income_sum has returned, its total is the
\* sum of the incomes of all the events the exchange holds in the requested
\* window, each counted once, also when events of one millisecond lie on both
\* sides of a page boundary.
C13_EveryEventOnce ==
    \A t \in Threads :
        pc[t] = "save" => inc[t].total = FSum(IncomesInWindow(t))

\* Thread t is in a call of get_funding_income_sum, or the call has ended.
InIncomeLoop(t) == pc[t] = "income"
IncomeCalled(t) == pc[t] \in {"income", "save", "raised"}

\* A pass of the while loop of thread t after which the loop goes on.
LoopGoesOn(t) ==
    /\ page'[t].requests = page[t].requests + 1
    /\ pc'[t] = "income"
    /\ IncomeLoops(inc'[t])

\* C14: the pagination loop of get_funding_income_sum terminates whatever the
\* exchange answers (full pages on every call, rows at or before the
\* requested startTime, rows that do not parse): every pass after which the
\* loop goes on has raised page_start, the requests of a call never number
\* more than the milliseconds of its window, and a call under way always ends.
C14_IncomeLoopTerminates ==
    /\ [][\A t \in Threads : LoopGoesOn(t) => inc'[t].page_start > inc[t].page_start]_vars
    /\ [](\A t \in Threads :
             IncomeCalled(t) =>
                page[t].requests
                    <= inc[t].end_ms - WindowStart(now[t], args[t].realized_window_hours))
    /\ \A t \in Threads : InIncomeLoop(t) ~> ~InIncomeLoop(t)

\* A call over a window of 2 ms was answered with a full page twice, the
\* second one without a row that parses: it has returned after two requests,
\* page_start having reached the end of the window.
C14_Witness ==
    /\ pc[1] = "save"
    /\ page[1].sizes = <<PageLimit, PageLimit>>
    /\ ~page[1].parsed
    /\ inc[1].page_start >= inc[1].end_ms
    /\ ~inc[1].returned

\* C15 as stated: with recording requests running concurrently on a record
\* file that did not exist, the file holds the header once, as its first
\* line, and after it data rows only.
C15_HeaderOnce ==
    recordFile.lines # <<>> =>
        /\ recordFile.lines[1] = HeaderLine
        /\ \A i \in 2..Len(recordFile.lines) : IsRow(recordFile.lines[i])

====
